---- MODULE Spec2Model ----
(***************************************************************************)
(* Model of the restaurant-lookup core: TimeChecker, DistanceCalculator,   *)
(* SpatialIndex (R-tree prefilter + fine filter) and the decorators of     *)
(* decorator.py (CachingSpatialIndex, LoggingSpatialIndex).                *)
(*                                                                         *)
(* Representation                                                          *)
(*  - a coordinate is an integer number of 1e-5 degrees;                   *)
(*  - a time of day (datetime.time / the time part of a datetime) is the   *)
(*    tuple <<hour, minute, second>>; None is the empty tuple <<>>;        *)
(*  - a string is a sequence of one-character strings;                     *)
(*  - a Python list is a sequence; SpatialIndex.restaurants is a function *)
(*    on its keys; CachingSpatialIndex.cache, whose iteration order the    *)
(*    eviction reads, is a sequence of entries in insertion order.         *)
(***************************************************************************)
EXTENDS Integers, Sequences, FiniteSets, TLC

VARIABLES
    restaurants,    \* SpatialIndex.restaurants: dict id -> attribute record
    idx,            \* SpatialIndex.idx: the R-tree's entries, in insertion order
    dataset,        \* the argument of the most recent build_index call
    cache,          \* CachingSpatialIndex.cache
    cache_size,     \* CachingSpatialIndex.cache_size
    cache_hits,     \* CachingSpatialIndex.cache_hits
    cache_misses,   \* CachingSpatialIndex.cache_misses
    query_count,    \* LoggingSpatialIndex.query_count
    last,           \* the most recent completed call: arguments and outcome
    pc,             \* concurrent runs: each thread's position in its call
    local,          \* concurrent runs: each thread's local variables
    layers,         \* a stack of decorators, the outermost first
    observers,      \* RestaurantAvailabilitySubject.observers
    available_restaurants,  \* RestaurantAvailabilitySubject.available_restaurants
    available_restaurants_of_interest,  \* the field of each AvailabilityMonitor
    history         \* what the calls on the subject have been so far

vars == <<restaurants, idx, dataset, cache, cache_size, cache_hits,
          cache_misses, query_count, last, pc, local, layers, observers,
          available_restaurants, available_restaurants_of_interest, history>>

indexVars == <<restaurants, idx, dataset>>
cacheVars == <<cache, cache_size, cache_hits, cache_misses>>
threadVars == <<pc, local>>
stackVars == <<layers>>
subjectVars == <<observers, available_restaurants,
                 available_restaurants_of_interest, history>>

None == <<>>

-----------------------------------------------------------------------------
(* Sequence helpers *)

Range(s) == {s[i] : i \in 1..Len(s)}

Abs(n) == IF n < 0 THEN -n ELSE n

-----------------------------------------------------------------------------
(* time_checker.py *)

DigitChars == <<"0", "1", "2", "3", "4", "5", "6", "7", "8", "9">>

DigitValue(c) == (CHOOSE i \in 1..10 : DigitChars[i] = c) - 1

\* two decimal digits of a %H / %M / %S field
TwoDigits(s, i) == 10 * DigitValue(s[i]) + DigitValue(s[i + 1])

\* datetime.strptime(text, '%H:%M:%S').time() on a well-formed HH:MM:SS string
strptime_time(text) == <<TwoDigits(text, 1), TwoDigits(text, 4), TwoDigits(text, 7)>>

\* datetime.time.__le__: times compare as (hour, minute, second) tuples
time_le(a, b) ==
    \/ a[1] < b[1]
    \/ a[1] = b[1] /\ a[2] < b[2]
    \/ a[1] = b[1] /\ a[2] = b[2] /\ a[3] <= b[3]

\* datetime.time.__ge__
time_ge(a, b) == time_le(b, a)

\* is_open with a fault: a half-open window that excludes the closing instant
is_open_half_open(open_hour, close_hour, current_time, now) ==
    LET t == IF current_time = None THEN now ELSE current_time
        open_time == strptime_time(open_hour)
        close_time == strptime_time(close_hour)
    IN IF time_le(open_time, close_time)
       THEN time_le(open_time, t) /\ time_le(t, close_time) /\ t # close_time
       ELSE time_ge(t, open_time) \/ (time_le(t, close_time) /\ t # close_time)

\* TimeChecker.is_open; now is the value datetime.now().time() yields when
\* current_time is None.
is_open(open_hour, close_hour, current_time, now) ==
    LET t == IF current_time = None THEN now ELSE current_time
        open_time == strptime_time(open_hour)
        close_time == strptime_time(close_hour)
    IN IF time_le(open_time, close_time)
       THEN time_le(open_time, t) /\ time_le(t, close_time)
       ELSE time_ge(t, open_time) \/ time_le(t, close_time)

-----------------------------------------------------------------------------
(* distance_calculator.py *)

RECURSIVE isqrt_search(_, _, _)
isqrt_search(n, lo, hi) ==
    IF lo >= hi THEN lo
    ELSE LET mid == (lo + hi + 1) \div 2
         IN IF mid * mid <= n THEN isqrt_search(n, mid, hi)
                              ELSE isqrt_search(n, lo, mid - 1)

\* floor of the square root, for n < 2048 * 2048
ISqrt(n) == isqrt_search(n, 0, 2048)

\* kilometres along one axis between two coordinates (1 degree = 111 km, the
\* figure spatial_index.py uses), at the model's resolution of one kilometre
AxisKm(a, b) == (111 * Abs(a - b)) \div 100000

\* pyproj.Geod.inv(lon1, lat1, lon2, lat2)[2]: the distance in metres. The
\* library is outside the repository; the model takes the plane distance of
\* the two axis differences, which is exact enough near the equator.
geod_inv(lon1, lat1, lon2, lat2) ==
    1000 * ISqrt(AxisKm(lat1, lat2) * AxisKm(lat1, lat2)
                 + AxisKm(lon1, lon2) * AxisKm(lon1, lon2))

\* calculate_distance with a fault: the second point's latitude and longitude
\* are passed in the wrong order
calculate_distance_mixed(lat1, lon1, lat2, lon2) ==
    geod_inv(lon1, lat1, lat2, lon2) \div 1000

\* DistanceCalculator.calculate_distance: kilometres
calculate_distance(lat1, lon1, lat2, lon2) == geod_inv(lon1, lat1, lon2, lat2) \div 1000

-----------------------------------------------------------------------------
(* spatial_index.py *)

MAX_RADIUS_KM == 100

\* restaurants[restaurant_id] = {...}: a dict assignment
DictSet(d, k, v) == [x \in (DOMAIN d) \cup {k} |-> IF x = k THEN v ELSE d[x]]

\* the (lat, lon, lat, lon) bounding box idx.insert receives
PointBox(row) == <<row.latitude, row.longitude, row.latitude, row.longitude>>

\* SpatialIndex.build_index: the loop over restaurants_df.iterrows(), applied
\* to the table rs and the R-tree entries ix the instance already holds
RECURSIVE build_index(_, _, _)
build_index(rs, ix, restaurants_df) ==
    IF restaurants_df = <<>> THEN <<rs, ix>>
    ELSE LET row == Head(restaurants_df)
         IN build_index(DictSet(rs, row.id, row),
                        Append(ix, [id |-> row.id, box |-> PointBox(row)]),
                        Tail(restaurants_df))

\* rtree intersection of an entry's box with the query box
\* (latitude -/+ radius_deg, longitude -/+ radius_deg), radius_deg being
\* MAX_RADIUS_KM / 111 degrees: both sides are multiplied by 111
BoxIntersects(box, latitude, longitude) ==
    /\ 111 * (box[1] - latitude) <= MAX_RADIUS_KM * 100000
    /\ 111 * (latitude - box[3]) <= MAX_RADIUS_KM * 100000
    /\ 111 * (box[2] - longitude) <= MAX_RADIUS_KM * 100000
    /\ 111 * (longitude - box[4]) <= MAX_RADIUS_KM * 100000

\* SpatialIndex.__get_candidate_restaurants: list(self.idx.intersection(box))
RECURSIVE _get_candidate_restaurants(_, _, _)
_get_candidate_restaurants(ix, latitude, longitude) ==
    IF ix = <<>> THEN <<>>
    ELSE LET rest == _get_candidate_restaurants(Tail(ix), latitude, longitude)
         IN IF BoxIntersects(Head(ix).box, latitude, longitude)
            THEN <<Head(ix).id>> \o rest
            ELSE rest

\* is_available with a fault: either condition alone is taken as sufficient
is_available_either(restaurant, latitude, longitude, current_time, now) ==
    \/ calculate_distance(latitude, longitude,
                          restaurant.latitude, restaurant.longitude)
          <= restaurant.availability_radius
    \/ is_open(restaurant.open_hour, restaurant.close_hour, current_time, now)

\* the condition of SpatialIndex.__filter_candidates
is_available(restaurant, latitude, longitude, current_time, now) ==
    /\ calculate_distance(latitude, longitude,
                          restaurant.latitude, restaurant.longitude)
          <= restaurant.availability_radius
    /\ is_open(restaurant.open_hour, restaurant.close_hour, current_time, now)

\* SpatialIndex.__filter_candidates
RECURSIVE _filter_candidates(_, _, _, _, _, _)
_filter_candidates(rs, candidates, latitude, longitude, current_time, now) ==
    IF candidates = <<>> THEN <<>>
    ELSE LET restaurant_id == Head(candidates)
             rest == _filter_candidates(rs, Tail(candidates), latitude, longitude,
                                       current_time, now)
         IN IF is_available(rs[restaurant_id], latitude, longitude, current_time, now)
            THEN <<restaurant_id>> \o rest
            ELSE rest

\* SpatialIndex.find_restaurants_in_radius on the instance state (rs, ix)
find_restaurants_in_radius(rs, ix, latitude, longitude, current_time, now) ==
    _filter_candidates(rs, _get_candidate_restaurants(ix, latitude, longitude),
                      latitude, longitude, current_time, now)

-----------------------------------------------------------------------------
(* decorator.py *)

\* str() of an hour or a minute, as the f-string of the time key formats it
Decimal(n) ==
    IF n < 10 THEN <<DigitChars[n + 1]>>
    ELSE <<DigitChars[(n \div 10) + 1], DigitChars[(n % 10) + 1]>>

\* time_key with a fault: hour and minute are joined without the colon
time_key_unseparated(current_time) ==
    IF current_time = None THEN None
    ELSE Decimal(current_time[1]) \o Decimal(current_time[2])

\* time_key: None, or f"{current_time.hour}:{current_time.minute}"
time_key(current_time) ==
    IF current_time = None THEN None
    ELSE Decimal(current_time[1]) \o <<":">> \o Decimal(current_time[2])

\* round(x, 4) of a coordinate in 1e-5 degrees: the nearest multiple of 10,
\* a tie going to the even one
round4(x) ==
    LET q == x \div 10
        r == x % 10
    IN 10 * (IF r < 5 THEN q
             ELSE IF r > 5 THEN q + 1
             ELSE IF q % 2 = 0 THEN q ELSE q + 1)

\* cache_key = (round(latitude, 4), round(longitude, 4), time_key)
cache_key(latitude, longitude, current_time) ==
    <<round4(latitude), round4(longitude), time_key(current_time)>>

\* cache_key in self.cache
CacheHas(c, key) == \E i \in 1..Len(c) : c[i].key = key

\* self.cache[cache_key]
CacheGet(c, key) == c[CHOOSE i \in 1..Len(c) : c[i].key = key].value

\* self.cache[cache_key] = result: a present key keeps its place
CachePut(c, key, result) ==
    IF CacheHas(c, key)
    THEN [i \in 1..Len(c) |-> IF c[i].key = key
                              THEN [key |-> key, value |-> result] ELSE c[i]]
    ELSE Append(c, [key |-> key, value |-> result])

\* caching_hit with a fault: a hit also moves the entry to the newest place,
\* as a least-recently-used cache would
caching_hit_refresh(c, hits, misses, key) ==
    LET i == CHOOSE j \in 1..Len(c) : c[j].key = key
    IN [cache |-> Append(SubSeq(c, 1, i - 1) \o SubSeq(c, i + 1, Len(c)), c[i]),
        cache_hits |-> hits + 1, cache_misses |-> misses,
        delegated |-> FALSE, raised |-> FALSE, result |-> c[i].value]

\* CachingSpatialIndex.find_restaurants_in_radius, the branch of a present key
caching_hit(c, hits, misses, key) ==
    [cache |-> c, cache_hits |-> hits + 1, cache_misses |-> misses,
     delegated |-> FALSE, raised |-> FALSE, result |-> CacheGet(c, key)]

\* caching_miss with a fault: at capacity the newest entry is removed
caching_miss_evict_newest(c, size, hits, misses, key, result) ==
    IF Len(c) >= size /\ c = <<>>
    THEN [cache |-> c, cache_hits |-> hits, cache_misses |-> misses + 1,
          delegated |-> TRUE, raised |-> TRUE, result |-> <<>>]
    ELSE [cache |-> CachePut(IF Len(c) >= size THEN SubSeq(c, 1, Len(c) - 1)
                                               ELSE c, key, result),
          cache_hits |-> hits, cache_misses |-> misses + 1,
          delegated |-> TRUE, raised |-> FALSE, result |-> result]

\* CachingSpatialIndex.find_restaurants_in_radius, the branch of an absent
\* key; result is what the wrapped index returns. next(iter(self.cache)) on an
\* empty dict raises StopIteration, which ends the call before the store.
caching_miss(c, size, hits, misses, key, result) ==
    IF Len(c) >= size /\ c = <<>>
    THEN [cache |-> c, cache_hits |-> hits, cache_misses |-> misses + 1,
          delegated |-> TRUE, raised |-> TRUE, result |-> <<>>]
    ELSE [cache |-> CachePut(IF Len(c) >= size THEN Tail(c) ELSE c, key, result),
          cache_hits |-> hits, cache_misses |-> misses + 1,
          delegated |-> TRUE, raised |-> FALSE, result |-> result]

\* CachingSpatialIndex.find_restaurants_in_radius
caching_find(c, size, hits, misses, key, result) ==
    IF CacheHas(c, key) THEN caching_hit(c, hits, misses, key)
    ELSE caching_miss(c, size, hits, misses, key, result)

\* caching_clear with a fault: the entries go, the counters stay
caching_clear_entries_only(hits, misses) ==
    [cache |-> <<>>, cache_hits |-> hits, cache_misses |-> misses]

\* CachingSpatialIndex.build_index, the statements before the delegation
caching_clear(hits, misses) ==
    [cache |-> <<>>, cache_hits |-> 0, cache_misses |-> 0]

-----------------------------------------------------------------------------
(* factory.py *)

\* the string "rtree"
RTREE == <<"r", "t", "r", "e", "e">>

\* SpatialIndex(time_checker, distance_calculator): the instance __init__ leaves
NewSpatialIndex(time_checker, distance_calculator) ==
    [class |-> "SpatialIndex", time_checker |-> time_checker,
     distance_calculator |-> distance_calculator,
     restaurants |-> <<>>, idx |-> <<>>]

\* create_index with a fault: an unknown type falls back to the R-tree index
create_index_fallback(index_type, time_checker, distance_calculator) ==
    [raised |-> FALSE, error |-> None,
     value |-> NewSpatialIndex(time_checker, distance_calculator)]

\* SpatialIndexFactory.create_index
create_index(index_type, time_checker, distance_calculator) ==
    IF index_type = RTREE
    THEN [raised |-> FALSE, error |-> None,
          value |-> NewSpatialIndex(time_checker, distance_calculator)]
    ELSE [raised |-> TRUE, error |-> "ValueError", value |-> None]

-----------------------------------------------------------------------------
(* Inputs of the time checks *)

TestHours == {0, 6, 22, 23}
TestMinutes == {0, 59}
TestSeconds == {0, 1, 59}

TestTimes == {<<h, m, s>> : h \in TestHours, m \in TestMinutes, s \in TestSeconds}

\* the HH:MM:SS text of a time of day, as the dataset's open_hour / close_hour
\* columns hold it
TimeText(t) ==
    << DigitChars[(t[1] \div 10) + 1], DigitChars[(t[1] % 10) + 1], ":",
       DigitChars[(t[2] \div 10) + 1], DigitChars[(t[2] % 10) + 1], ":",
       DigitChars[(t[3] \div 10) + 1], DigitChars[(t[3] % 10) + 1] >>

\* seconds since midnight: the order the claims speak of
SecondOfDay(t) == 3600 * t[1] + 60 * t[2] + t[3]

NoCall == [op |-> "none"]

\* the time checks start from any window and instant of TestTimes
TimeInit ==
    /\ restaurants = <<>> /\ idx = <<>> /\ dataset = <<>>
    /\ cache = <<>> /\ cache_size = 0 /\ cache_hits = 0 /\ cache_misses = 0
    /\ query_count = 0
    /\ pc = <<>> /\ local = <<>>
    /\ layers = <<>>
    /\ observers = <<>>
    /\ available_restaurants = {}
    /\ available_restaurants_of_interest = <<>>
    /\ history = <<>>
    /\ \E open \in TestTimes, close \in TestTimes, instant \in TestTimes :
          last = [op |-> "is_open_args", open |-> open, close |-> close,
                  instant |-> instant]

\* one call of TimeChecker.is_open with a time (not None) argument
CheckIsOpen ==
    /\ last.op = "is_open_args"
    /\ last' = [op |-> "is_open", open |-> last.open, close |-> last.close,
                instant |-> last.instant,
                result |-> is_open(TimeText(last.open), TimeText(last.close),
                                   last.instant, last.instant)]
    /\ UNCHANGED <<stackVars, subjectVars>>
    /\ UNCHANGED <<indexVars, cacheVars, query_count, threadVars>>

\* one call of TimeChecker.is_open with current_time None: the clock, which
\* reads last.instant, decides
CheckIsOpenNow ==
    /\ last.op = "is_open_args"
    /\ last' = [op |-> "is_open_now", open |-> last.open, close |-> last.close,
                instant |-> last.instant,
                result |-> is_open(TimeText(last.open), TimeText(last.close),
                                   None, last.instant)]
    /\ UNCHANGED <<stackVars, subjectVars>>
    /\ UNCHANGED <<indexVars, cacheVars, query_count, threadVars>>

TimeNext ==
    \/ CheckIsOpen
    \/ CheckIsOpenNow

SpecTime == TimeInit /\ [][TimeNext]_vars

-----------------------------------------------------------------------------
(* C6: for all open, close and instant at second granularity, is_open is     *)
(* true iff (open <= close and open <= instant <= close) or (open > close    *)
(* and (instant >= open or instant <= close)), the order being that of the   *)
(* seconds since midnight. So the opening and the closing instant are open,  *)
(* an overnight window is closed exactly strictly between close and open,    *)
(* and a window with open = close is open at that instant only.              *)
C6_IsOpenFormula ==
    last.op = "is_open" =>
        LET o == SecondOfDay(last.open)
            c == SecondOfDay(last.close)
            i == SecondOfDay(last.instant)
        IN /\ last.result <=> \/ o <= c /\ o <= i /\ i <= c
                              \/ o > c /\ (i >= o \/ i <= c)
           /\ (i = o \/ i = c) => last.result
           /\ o > c => (~last.result <=> (c < i /\ i < o))
           /\ o = c => (last.result <=> i = o)

\* an overnight window asked at its closing instant, found open
C6_Witness ==
    /\ last.op = "is_open"
    /\ SecondOfDay(last.open) > SecondOfDay(last.close)
    /\ last.instant = last.close
    /\ last.result

-----------------------------------------------------------------------------
(* A SpatialIndex used directly: build_index and find_restaurants_in_radius *)

MaxId == 2          \* provider ids are 1..MaxId
MaxEntries == 2     \* rows inserted into one SpatialIndex over all its builds

Ids == 1..MaxId

\* the opening hours of the test fixture's first restaurant, and a window
\* that crosses midnight
DayWindow == [open_hour |-> TimeText(<<14, 0, 0>>), close_hour |-> TimeText(<<23, 0, 0>>)]
NightWindow == [open_hour |-> TimeText(<<22, 0, 0>>), close_hour |-> TimeText(<<6, 0, 0>>)]

\* What a row may hold besides its id: a place at the origin or half a degree
\* north of it, a radius of 5 or 150 km, one of the two windows. The four
\* profiles pair every value of one attribute with every value of another.
Profiles ==
    { [latitude |-> 0,     availability_radius |-> 150, window |-> DayWindow],
      [latitude |-> 0,     availability_radius |-> 5,   window |-> NightWindow],
      [latitude |-> 50000, availability_radius |-> 5,   window |-> DayWindow],
      [latitude |-> 50000, availability_radius |-> 150, window |-> NightWindow] }

\* the query points put the providers at 0, 0.5 and 1 degree of latitude and
\* at 0 and 1 degree of longitude
QueryPoints == {<<0, 0>>, <<100000, 0>>, <<0, 100000>>}

\* an instant inside DayWindow alone and one inside NightWindow alone
QueryTimes == {<<15, 0, 0>>, <<2, 0, 0>>}

Rows ==
    {[id |-> i, latitude |-> p.latitude, longitude |-> 0,
      availability_radius |-> p.availability_radius,
      open_hour |-> p.window.open_hour, close_hour |-> p.window.close_hour,
      rating |-> 47] : i \in Ids, p \in Profiles}

\* the DataFrames of at most n rows
DataFrames(n) == UNION {[1..k -> Rows] : k \in 0..n}

\* SpatialIndex.build_index(restaurants_df)
BuildIndex(restaurants_df) ==
    /\ Len(idx) + Len(restaurants_df) <= MaxEntries
    /\ LET built == build_index(restaurants, idx, restaurants_df)
       IN /\ restaurants' = built[1]
          /\ idx' = built[2]
    /\ dataset' = restaurants_df
    /\ last' = [op |-> "build_index"]
    /\ UNCHANGED <<stackVars, subjectVars>>
    /\ UNCHANGED <<cacheVars, query_count, threadVars>>

\* SpatialIndex.find_restaurants_in_radius(latitude, longitude, current_time);
\* now is what the clock reads during the call
FindRestaurants(latitude, longitude, current_time, now) ==
    /\ last' = [op |-> "find", latitude |-> latitude, longitude |-> longitude,
                current_time |-> current_time,
                instant |-> IF current_time = None THEN now ELSE current_time,
                candidates |-> _get_candidate_restaurants(idx, latitude, longitude),
                result |-> find_restaurants_in_radius(restaurants, idx, latitude,
                                                      longitude, current_time, now)]
    /\ UNCHANGED <<stackVars, subjectVars>>
    /\ UNCHANGED <<indexVars, cacheVars, query_count, threadVars>>

IndexNext ==
    \/ \E df \in DataFrames(MaxEntries - Len(idx)) : BuildIndex(df)
    \/ \E q \in QueryPoints, t \in QueryTimes : FindRestaurants(q[1], q[2], t, t)
    \/ \E q \in QueryPoints, now \in QueryTimes : FindRestaurants(q[1], q[2], None, now)

Init ==
    /\ restaurants = <<>>
    /\ idx = <<>>
    /\ dataset = <<>>
    /\ cache = <<>>
    /\ cache_size = 0
    /\ cache_hits = 0
    /\ cache_misses = 0
    /\ query_count = 0
    /\ pc = <<>>
    /\ local = <<>>
    /\ layers = <<>>
    /\ observers = <<>>
    /\ available_restaurants = {}
    /\ available_restaurants_of_interest = <<>>
    /\ history = <<>>
    /\ last = NoCall

Spec == Init /\ [][IndexNext]_vars

\* the provider record the table holds is in range of the last query
InRange(restaurant) ==
    calculate_distance(last.latitude, last.longitude,
                       restaurant.latitude, restaurant.longitude)
        <= restaurant.availability_radius

\* the provider record the table holds is open at the last query's instant
OpenAtInstant(restaurant) ==
    LET o == SecondOfDay(strptime_time(restaurant.open_hour))
        c == SecondOfDay(strptime_time(restaurant.close_hour))
        i == SecondOfDay(last.instant)
    IN \/ o <= c /\ o <= i /\ i <= c
       \/ o > c /\ (i >= o \/ i <= c)

\* the ids of a DataFrame's rows
IdsOf(df) == {df[i].id : i \in 1..Len(df)}

\* the index holds the rows of the last dataset and nothing else, and the
\* dataset gives each id once
HoldsExactlyDataset ==
    /\ Len(idx) = Len(dataset)
    /\ \A i \in 1..Len(dataset) :
          /\ dataset[i].id \in DOMAIN restaurants
          /\ restaurants[dataset[i].id] = dataset[i]
          /\ \A j \in 1..Len(dataset) : dataset[j].id = dataset[i].id => j = i

(* C1: after build_index on a dataset, for every query point and instant a   *)
(* provider id is in the list find_restaurants_in_radius returns if and only *)
(* if the provider is within its availability_radius of the query point and  *)
(* open at the instant: the result is what a scan over all loaded providers  *)
(* selects.                                                                  *)
C1_ResultIsBruteForce ==
    (last.op = "find" /\ HoldsExactlyDataset) =>
        \A i \in 1..Len(dataset) :
            dataset[i].id \in Range(last.result)
                <=> (InRange(dataset[i]) /\ OpenAtInstant(dataset[i]))

(* C2: the coarse prefilter has no false negative: for every query point,    *)
(* _get_candidate_restaurants returns every loaded provider whose distance   *)
(* to the query point is within that provider's own availability_radius.     *)
C2_PrefilterNoFalseNegative ==
    last.op = "find" =>
        \A id \in DOMAIN restaurants :
            InRange(restaurants[id]) => id \in Range(last.candidates)

(* C4: build_index replaces all prior content: after build_index(D2) the     *)
(* table and the R-tree hold exactly the providers of D2, and no later query *)
(* returns a provider that is absent from D2.                                *)
C4_BuildReplaces ==
    /\ last.op = "build_index" =>
          /\ DOMAIN restaurants = IdsOf(dataset)
          /\ idx = [i \in 1..Len(dataset) |->
                       [id |-> dataset[i].id, box |-> PointBox(dataset[i])]]
    /\ last.op = "find" => Range(last.result) \subseteq IdsOf(dataset)

(* C5: the R-tree and the table agree after any sequence of builds: every    *)
(* R-tree entry has a record with the same id and the same coordinates, and  *)
(* every record has exactly one R-tree entry.                                *)
C5_StructuresAgree ==
    /\ \A i \in 1..Len(idx) :
          /\ idx[i].id \in DOMAIN restaurants
          /\ idx[i].box = PointBox(restaurants[idx[i].id])
    /\ \A id \in DOMAIN restaurants :
          Cardinality({i \in 1..Len(idx) : idx[i].id = id}) = 1

(* C3: every id find_restaurants_in_radius returns is, by its record in the  *)
(* table, both within its own availability_radius of the query point and     *)
(* open at the query instant.                                                *)
C3_BothConditions ==
    last.op = "find" =>
        \A i \in 1..Len(last.result) :
            /\ last.result[i] \in DOMAIN restaurants
            /\ InRange(restaurants[last.result[i]])
            /\ OpenAtInstant(restaurants[last.result[i]])

\* a query that left out both a provider in range but closed and a provider
\* open but out of range
C3_Witness ==
    /\ last.op = "find"
    /\ \E a \in DOMAIN restaurants :
          /\ InRange(restaurants[a]) /\ ~OpenAtInstant(restaurants[a])
          /\ a \notin Range(last.result)
    /\ \E b \in DOMAIN restaurants :
          /\ ~InRange(restaurants[b]) /\ OpenAtInstant(restaurants[b])
          /\ b \in Range(last.candidates)
          /\ b \notin Range(last.result)

(* C15: the list find_restaurants_in_radius returns is ordered by ascending  *)
(* provider id, for every dataset and every insertion order of the providers *)
(* in build_index.                                                           *)
C15_AscendingIds ==
    last.op = "find" =>
        \A i \in 1..Len(last.result), j \in 1..Len(last.result) :
            i < j => last.result[i] <= last.result[j]

(* C18: the result of find_restaurants_in_radius is a function of the loaded *)
(* providers and of the arguments (latitude, longitude, instant) alone: with *)
(* the instant omitted the core does not produce the evaluation time itself, *)
(* so two calls with the same index content and the same arguments return    *)
(* the same list whenever they run.                                          *)
C18_Deterministic ==
    [][(/\ last.op = "find" /\ last'.op = "find"
        /\ last'.latitude = last.latitude
        /\ last'.longitude = last.longitude
        /\ last'.current_time = last.current_time
        /\ UNCHANGED indexVars)
       => last'.result = last.result]_vars

-----------------------------------------------------------------------------
(* A CachingSpatialIndex over a LoggingSpatialIndex over a SpatialIndex, as   *)
(* test_decorator_pattern chains them; every call runs to completion.         *)

MaxCacheSize == 2   \* cache_size is drawn from 0..MaxCacheSize
MaxQueries == 3     \* queries between two builds of the cache

\* the first restaurant of the test fixture, at the origin
FixtureRow ==
    [id |-> 1, latitude |-> 0, longitude |-> 0, availability_radius |-> 5,
     open_hour |-> DayWindow.open_hour, close_hour |-> DayWindow.close_hour,
     rating |-> 47]

CacheFrames == {<<>>, <<FixtureRow>>}

\* 0.00000, 0.00004 and 0.00006 degrees: the first two round to the same key
CacheLatitudes == {0, 4, 6}
\* two instants of one minute, and no instant
CacheTimes == {None, <<15, 0, 0>>, <<15, 0, 30>>}

CacheInit ==
    /\ restaurants = <<>> /\ idx = <<>> /\ dataset = <<>>
    /\ cache = <<>>
    /\ cache_size \in 0..MaxCacheSize
    /\ cache_hits = 0
    /\ cache_misses = 0
    /\ query_count = 0
    /\ pc = <<>> /\ local = <<>>
    /\ layers = <<>>
    /\ observers = <<>>
    /\ available_restaurants = {}
    /\ available_restaurants_of_interest = <<>>
    /\ history = <<>>
    /\ last = NoCall

\* CachingSpatialIndex.build_index(restaurants_data), through
\* LoggingSpatialIndex.build_index to SpatialIndex.build_index
CachingBuildIndex(restaurants_data) ==
    /\ Len(idx) + Len(restaurants_data) <= MaxEntries
    /\ LET cleared == caching_clear(cache_hits, cache_misses)
           built == build_index(restaurants, idx, restaurants_data)
       IN /\ cache' = cleared.cache
          /\ cache_hits' = cleared.cache_hits
          /\ cache_misses' = cleared.cache_misses
          /\ query_count' = 0
          /\ restaurants' = built[1]
          /\ idx' = built[2]
    /\ dataset' = restaurants_data
    /\ last' = [op |-> "cache_build", size_before |-> Len(cache),
                hits_before |-> cache_hits, misses_before |-> cache_misses]
    /\ UNCHANGED <<stackVars, subjectVars>>
    /\ UNCHANGED <<cache_size, threadVars>>

\* CachingSpatialIndex.find_restaurants_in_radius(latitude, longitude,
\* current_time); a miss goes through LoggingSpatialIndex to the SpatialIndex
CachingFind(latitude, longitude, current_time, now) ==
    /\ cache_hits + cache_misses < MaxQueries
    /\ LET key == cache_key(latitude, longitude, current_time)
           out == caching_find(cache, cache_size, cache_hits, cache_misses, key,
                      find_restaurants_in_radius(restaurants, idx, latitude,
                                                 longitude, current_time, now))
       IN /\ cache' = out.cache
          /\ cache_hits' = out.cache_hits
          /\ cache_misses' = out.cache_misses
          /\ query_count' = IF out.delegated THEN query_count + 1 ELSE query_count
          /\ last' = [op |-> "cache_find", latitude |-> latitude,
                      longitude |-> longitude, current_time |-> current_time,
                      instant |-> IF current_time = None THEN now ELSE current_time,
                      key |-> key, present |-> CacheHas(cache, key),
                      raised |-> out.raised, result |-> out.result,
                      hits_before |-> cache_hits, misses_before |-> cache_misses]
    /\ UNCHANGED <<stackVars, subjectVars>>
    /\ UNCHANGED <<indexVars, cache_size, threadVars>>

\* build_index called on the wrapped index object itself, the
\* LoggingSpatialIndex the cache holds in self.spatial_index: the call does
\* not pass through CachingSpatialIndex
WrappedBuildIndex(restaurants_data) ==
    /\ Len(idx) + Len(restaurants_data) <= MaxEntries
    /\ LET built == build_index(restaurants, idx, restaurants_data)
       IN /\ restaurants' = built[1]
          /\ idx' = built[2]
    /\ query_count' = 0
    /\ dataset' = restaurants_data
    /\ last' = [op |-> "wrapped_build", size_before |-> Len(cache),
                hits_before |-> cache_hits, misses_before |-> cache_misses]
    /\ UNCHANGED <<stackVars, subjectVars>>
    /\ UNCHANGED <<cacheVars, threadVars>>

CacheNext ==
    \/ \E df \in CacheFrames : CachingBuildIndex(df)
    \/ \E df \in CacheFrames : WrappedBuildIndex(df)
    \/ \E la \in CacheLatitudes, t \in CacheTimes \ {None} : CachingFind(la, 0, t, t)
    \/ \E la \in CacheLatitudes, now \in QueryTimes : CachingFind(la, 0, None, now)

SpecCache == CacheInit /\ [][CacheNext]_vars

(* C7: cache idempotence: on a cache with no entry for the key, two           *)
(* consecutive queries with the same rounded coordinates and the same         *)
(* truncated instant return identical lists; the first adds one to the miss   *)
(* counter and leaves the hits, the second adds one to the hit counter and    *)
(* leaves the misses; for every configured cache_size.                        *)
C7_Idempotence ==
    [][(/\ last.op = "cache_find" /\ ~last.present
        /\ last'.op = "cache_find" /\ last'.key = last.key)
       => /\ ~last.raised /\ ~last'.raised
          /\ last'.result = last.result
          /\ cache_misses = last.misses_before + 1
          /\ cache_hits = last.hits_before
          /\ cache_hits' = cache_hits + 1
          /\ cache_misses' = cache_misses]_vars

(* C8: a cache hit changes nothing but the hit counter: with the key present *)
(* the call does not reach the wrapped index, adds, removes and replaces no  *)
(* cache entry, leaves the miss counter and adds exactly one to the hits.    *)
C8_HitFrame ==
    [][(last'.op = "cache_find" /\ CacheHas(cache, last'.key))
       => /\ cache' = cache
          /\ cache_misses' = cache_misses
          /\ cache_hits' = cache_hits + 1
          /\ query_count' = query_count
          /\ UNCHANGED <<indexVars, cache_size>>
          /\ ~last'.raised
          /\ last'.result = CacheGet(cache, last'.key)]_vars

\* a hit on the older entry of a cache that holds two
C8_Witness ==
    /\ last.op = "cache_find"
    /\ last.present
    /\ Len(cache) = 2
    /\ cache[1].key = last.key

(* C9: after CachingSpatialIndex.build_index returns the cache has no entry  *)
(* and both counters are zero, whatever they were before the call.           *)
C9_BuildClears ==
    last.op = "cache_build" =>
        /\ cache = <<>>
        /\ cache_hits = 0
        /\ cache_misses = 0

\* a build on a cache that held an entry and had counted a hit and a miss
C9_Witness ==
    /\ last.op = "cache_build"
    /\ last.size_before > 0
    /\ last.hits_before > 0
    /\ last.misses_before > 0

(* C11: whenever the index a CachingSpatialIndex wraps is rebuilt, through   *)
(* build_index of the cache or through build_index of the wrapped index      *)
(* object itself, the cache is cleared and its counters are reset, so that   *)
(* no entry computed before the rebuild can answer a later query.            *)
C11_RebuildClears ==
    last.op \in {"cache_build", "wrapped_build"} =>
        /\ cache = <<>>
        /\ cache_hits = 0
        /\ cache_misses = 0

\* the keys of the cache's entries
CacheKeys(c) == {c[i].key : i \in 1..Len(c)}

(* C12: capacity: after any sequence of queries and builds the number of     *)
(* entries, the size get_cache_stats reports, never exceeds cache_size; a    *)
(* miss that finds the cache at capacity removes exactly one existing entry  *)
(* before it inserts the new one, and after every miss the queried key is    *)
(* present.                                                                  *)
C12_Capacity ==
    [][/\ Len(cache') <= cache_size'
       /\ (last'.op = "cache_find" /\ ~CacheHas(cache, last'.key)) =>
              /\ CacheHas(cache', last'.key)
              /\ Len(cache) >= cache_size =>
                     /\ Cardinality(CacheKeys(cache) \ CacheKeys(cache')) = 1
                     /\ CacheKeys(cache') \ CacheKeys(cache) = {last'.key}
              /\ Len(cache) < cache_size =>
                     CacheKeys(cache') = CacheKeys(cache) \cup {last'.key}]_vars

(* C16: a query on an index that was never built, or was built with zero     *)
(* providers, returns the empty list and raises nothing, also when it is     *)
(* made through CachingSpatialIndex and LoggingSpatialIndex, for every       *)
(* query point and instant.                                                  *)
C16_EmptyIndexEmptyResult ==
    (last.op = "cache_find" /\ idx = <<>>) =>
        /\ ~last.raised
        /\ last.result = <<>>

(* C17: for every sequence of build_index and find_restaurants_in_radius     *)
(* calls with well-formed providers, coordinates and instants, on a          *)
(* CachingSpatialIndex constructed with any cache_size >= 0, no call raises. *)
C17_NoCallRaises ==
    last.op = "cache_find" => ~last.raised

-----------------------------------------------------------------------------
(* Threads on one CachingSpatialIndex over a SpatialIndex: thread Builder     *)
(* calls build_index once, every other thread calls                           *)
(* find_restaurants_in_radius once. A step is one statement of decorator.py;  *)
(* a counter's += is a read and a write.                                      *)

NumQueriers == 2    \* the threads that query

Builder == 0
Queriers == 1..NumQueriers
Threads == {Builder} \cup Queriers

\* the index is built with the fixture's restaurant when the threads start;
\* the rebuild brings no, one or two more restaurants to the same place
SecondRow == [FixtureRow EXCEPT !.id = 2]
ThirdRow == [FixtureRow EXCEPT !.id = 3]
ConcFrames == {<<>>, <<SecondRow>>, <<SecondRow, ThirdRow>>}

ConcPoints == {<<0, 0>>, <<100000, 0>>}

NoLocals ==
    [latitude |-> 0, longitude |-> 0, current_time |-> None, key |-> <<>>,
     tmp |-> 0, result |-> <<>>, rows |-> <<>>, victim |-> <<>>]

ConcInit ==
    /\ LET built == build_index(<<>>, <<>>, <<FixtureRow>>)
       IN restaurants = built[1] /\ idx = built[2]
    /\ dataset = <<FixtureRow>>
    /\ cache = <<>>
    /\ cache_size \in 0..MaxCacheSize
    /\ cache_hits = 0
    /\ cache_misses = 0
    /\ query_count = 0
    /\ last = NoCall
    /\ pc = [t \in Threads |-> "idle"]
    /\ local = [t \in Threads |-> NoLocals]
    /\ layers = <<>>
    /\ observers = <<>>
    /\ available_restaurants = {}
    /\ available_restaurants_of_interest = <<>>
    /\ history = <<>>

Goto(t, label) == pc' = [pc EXCEPT ![t] = label]

\* CachingSpatialIndex.build_index is called: self.cache = {}
BuildClearCache(restaurants_data) ==
    /\ pc[Builder] = "idle"
    /\ cache' = <<>>
    /\ local' = [local EXCEPT ![Builder].rows = restaurants_data]
    /\ dataset' = restaurants_data
    /\ Goto(Builder, "build_hits")
    /\ UNCHANGED <<stackVars, subjectVars>>
    /\ UNCHANGED <<restaurants, idx, cache_size, cache_hits, cache_misses,
                   query_count, last>>

\* self.cache_hits = 0
BuildClearHits ==
    /\ pc[Builder] = "build_hits"
    /\ cache_hits' = 0
    /\ Goto(Builder, "build_misses")
    /\ UNCHANGED <<stackVars, subjectVars>>
    /\ UNCHANGED <<indexVars, cache, cache_size, cache_misses, query_count, last, local>>

\* self.cache_misses = 0
BuildClearMisses ==
    /\ pc[Builder] = "build_misses"
    /\ cache_misses' = 0
    /\ Goto(Builder, "build_forward")
    /\ UNCHANGED <<stackVars, subjectVars>>
    /\ UNCHANGED <<indexVars, cache, cache_size, cache_hits, query_count, last, local>>

\* self.spatial_index.build_index(restaurants_data): one round of the loop
\* over the rows, or the return when no row is left
BuildForward ==
    /\ pc[Builder] = "build_forward"
    /\ IF local[Builder].rows = <<>>
       THEN /\ Goto(Builder, "done")
            /\ UNCHANGED <<restaurants, idx, local>>
       ELSE /\ LET built == build_index(restaurants, idx, <<Head(local[Builder].rows)>>)
               IN restaurants' = built[1] /\ idx' = built[2]
            /\ local' = [local EXCEPT ![Builder].rows = Tail(@)]
            /\ UNCHANGED pc
    /\ UNCHANGED <<stackVars, subjectVars>>
    /\ UNCHANGED <<dataset, cacheVars, query_count, last>>

\* find_restaurants_in_radius is called: the key, and the test
\* cache_key in self.cache
QueryLookup(t, latitude, longitude, current_time) ==
    /\ pc[t] = "idle"
    /\ LET key == cache_key(latitude, longitude, current_time)
       IN /\ local' = [local EXCEPT ![t] =
                          [@ EXCEPT !.latitude = latitude, !.longitude = longitude,
                                    !.current_time = current_time, !.key = key]]
          /\ Goto(t, IF CacheHas(cache, key) THEN "hit_read" ELSE "miss_read")
    /\ UNCHANGED <<stackVars, subjectVars>>
    /\ UNCHANGED <<indexVars, cacheVars, query_count, last>>

\* self.cache_hits += 1, the read
QueryHitRead(t) ==
    /\ pc[t] = "hit_read"
    /\ local' = [local EXCEPT ![t].tmp = cache_hits]
    /\ Goto(t, "hit_write")
    /\ UNCHANGED <<stackVars, subjectVars>>
    /\ UNCHANGED <<indexVars, cacheVars, query_count, last>>

\* self.cache_hits += 1, the write
QueryHitWrite(t) ==
    /\ pc[t] = "hit_write"
    /\ cache_hits' = local[t].tmp + 1
    /\ Goto(t, "hit_return")
    /\ UNCHANGED <<stackVars, subjectVars>>
    /\ UNCHANGED <<indexVars, cache, cache_size, cache_misses, query_count, last, local>>

\* return self.cache[cache_key]: a KeyError when the entry is gone
QueryHitReturn(t) ==
    /\ pc[t] = "hit_return"
    /\ IF CacheHas(cache, local[t].key)
       THEN /\ local' = [local EXCEPT ![t].result = CacheGet(cache, local[t].key)]
            /\ Goto(t, "done")
       ELSE /\ Goto(t, "raised")
            /\ UNCHANGED local
    /\ UNCHANGED <<stackVars, subjectVars>>
    /\ UNCHANGED <<indexVars, cacheVars, query_count, last>>

\* self.cache_misses += 1, the read
QueryMissRead(t) ==
    /\ pc[t] = "miss_read"
    /\ local' = [local EXCEPT ![t].tmp = cache_misses]
    /\ Goto(t, "miss_write")
    /\ UNCHANGED <<stackVars, subjectVars>>
    /\ UNCHANGED <<indexVars, cacheVars, query_count, last>>

\* self.cache_misses += 1, the write
QueryMissWrite(t) ==
    /\ pc[t] = "miss_write"
    /\ cache_misses' = local[t].tmp + 1
    /\ Goto(t, "delegate")
    /\ UNCHANGED <<stackVars, subjectVars>>
    /\ UNCHANGED <<indexVars, cache, cache_size, cache_hits, query_count, last, local>>

\* result = self.spatial_index.find_restaurants_in_radius(...)
QueryDelegate(t) ==
    /\ pc[t] = "delegate"
    /\ local' = [local EXCEPT ![t].result =
                    find_restaurants_in_radius(restaurants, idx, local[t].latitude,
                        local[t].longitude, local[t].current_time,
                        local[t].current_time)]
    /\ Goto(t, "evict")
    /\ UNCHANGED <<stackVars, subjectVars>>
    /\ UNCHANGED <<indexVars, cacheVars, query_count, last>>

\* del self.cache[key], by dict.pop
CacheRemove(c, key) == SelectSeq(c, LAMBDA e : e.key # key)

\* if len(self.cache) >= self.cache_size: the test
QueryEvict(t) ==
    /\ pc[t] = "evict"
    /\ Goto(t, IF Len(cache) >= cache_size THEN "evict_next" ELSE "store")
    /\ UNCHANGED <<stackVars, subjectVars>>
    /\ UNCHANGED <<indexVars, cacheVars, query_count, last, local>>

\* next(iter(self.cache)): the oldest key, or StopIteration on an empty dict
QueryEvictNext(t) ==
    /\ pc[t] = "evict_next"
    /\ IF cache = <<>>
       THEN /\ Goto(t, "raised")
            /\ UNCHANGED local
       ELSE /\ local' = [local EXCEPT ![t].victim = cache[1].key]
            /\ Goto(t, "evict_pop")
    /\ UNCHANGED <<stackVars, subjectVars>>
    /\ UNCHANGED <<indexVars, cacheVars, query_count, last>>

\* self.cache.pop(key): a KeyError when the key is gone
QueryEvictPop(t) ==
    /\ pc[t] = "evict_pop"
    /\ IF CacheHas(cache, local[t].victim)
       THEN /\ cache' = CacheRemove(cache, local[t].victim)
            /\ Goto(t, "store")
       ELSE /\ Goto(t, "raised")
            /\ UNCHANGED cache
    /\ UNCHANGED <<stackVars, subjectVars>>
    /\ UNCHANGED <<indexVars, cache_size, cache_hits, cache_misses, query_count,
                   last, local>>

\* self.cache[cache_key] = result; return result
QueryStore(t) ==
    /\ pc[t] = "store"
    /\ cache' = CachePut(cache, local[t].key, local[t].result)
    /\ Goto(t, "done")
    /\ UNCHANGED <<stackVars, subjectVars>>
    /\ UNCHANGED <<indexVars, cache_size, cache_hits, cache_misses, query_count,
                   last, local>>

ConcNext ==
    \/ \E df \in ConcFrames : BuildClearCache(df)
    \/ BuildClearHits
    \/ BuildClearMisses
    \/ BuildForward
    \/ \E t \in Queriers, q \in ConcPoints, time \in QueryTimes :
          QueryLookup(t, q[1], q[2], time)
    \/ \E t \in Queriers : QueryHitRead(t)
    \/ \E t \in Queriers : QueryHitWrite(t)
    \/ \E t \in Queriers : QueryHitReturn(t)
    \/ \E t \in Queriers : QueryMissRead(t)
    \/ \E t \in Queriers : QueryMissWrite(t)
    \/ \E t \in Queriers : QueryDelegate(t)
    \/ \E t \in Queriers : QueryEvict(t)
    \/ \E t \in Queriers : QueryEvictNext(t)
    \/ \E t \in Queriers : QueryEvictPop(t)
    \/ \E t \in Queriers : QueryStore(t)

SpecConc == ConcInit /\ [][ConcNext]_vars

\* each entry the cache holds is the answer the index now gives to its query
NoStaleEntry ==
    \A q \in ConcPoints, time \in QueryTimes :
        LET key == cache_key(q[1], q[2], time)
        IN CacheHas(cache, key) =>
              CacheGet(cache, key)
                  = find_restaurants_in_radius(restaurants, idx, q[1], q[2], time, time)

(* C10: CachingSpatialIndex.build_index forwards to the wrapped index first  *)
(* and clears the cache afterwards, so that under every interleaving of the  *)
(* build with queries no entry computed against the previous dataset is in   *)
(* the cache when build_index returns.                                       *)
C10_NoStaleEntryAtReturn ==
    [][(pc[Builder] # "done" /\ pc'[Builder] = "done") => NoStaleEntry']_vars

(* C13: under any interleaving of concurrent queries on one                  *)
(* CachingSpatialIndex, two simultaneous misses of one key included, the     *)
(* bookkeeping is not corrupted: when all queries have completed, hits plus  *)
(* misses is the number of queries performed, the number of entries is at    *)
(* most cache_size, and no query has failed because of another query's       *)
(* eviction. No build runs; a query that raises with cache_size 0 has met    *)
(* its own empty cache, not another query's eviction.                        *)
C13_BookkeepingIntact ==
    (pc[Builder] = "idle" /\ \A t \in Queriers : pc[t] \in {"done", "raised"}) =>
        /\ cache_hits + cache_misses = NumQueriers
        /\ Len(cache) <= cache_size
        /\ \A t \in Queriers : pc[t] = "raised" => cache_size = 0

\* the index the threads start with, and the one a completed build leaves
PreviousIndex == build_index(<<>>, <<>>, <<FixtureRow>>)
CompleteIndex == build_index(PreviousIndex[1], PreviousIndex[2], dataset)

(* C14: no reader observes a partially rebuilt index: a                      *)
(* find_restaurants_in_radius call that runs concurrently with build_index   *)
(* on the same SpatialIndex sees the complete previous dataset or the        *)
(* complete new one, never a state in which only some of the new providers   *)
(* have been inserted.                                                       *)
C14_NoPartialRebuildSeen ==
    [][\A t \in Queriers :
          (pc[t] = "delegate" /\ pc'[t] = "evict") =>
              \/ local'[t].result
                    = find_restaurants_in_radius(PreviousIndex[1], PreviousIndex[2],
                          local[t].latitude, local[t].longitude,
                          local[t].current_time, local[t].current_time)
              \/ /\ pc[Builder] # "idle"
                 /\ local'[t].result
                       = find_restaurants_in_radius(CompleteIndex[1], CompleteIndex[2],
                             local[t].latitude, local[t].longitude,
                             local[t].current_time, local[t].current_time)]_vars

-----------------------------------------------------------------------------
(* The cache key of two queries *)

\* latitudes and longitudes in 1e-5 degrees, none of them half-way between
\* two 4-decimal values
KeyLatitudes == {-4, 0, 4, 6, 14}
KeyLongitudes == {0, 6}
\* no instant; 1:23 twice, 12:03, 1:02 and 11:02
KeyTimes == {None, <<1, 23, 0>>, <<1, 23, 30>>, <<12, 3, 0>>, <<1, 2, 0>>, <<11, 2, 0>>}

KeyQueries ==
    {[latitude |-> la, longitude |-> lo, current_time |-> t] :
        la \in KeyLatitudes, lo \in KeyLongitudes, t \in KeyTimes}

KeyInit ==
    /\ restaurants = <<>> /\ idx = <<>> /\ dataset = <<>>
    /\ cache = <<>> /\ cache_size = 0 /\ cache_hits = 0 /\ cache_misses = 0
    /\ query_count = 0
    /\ pc = <<>> /\ local = <<>>
    /\ layers = <<>>
    /\ observers = <<>>
    /\ available_restaurants = {}
    /\ available_restaurants_of_interest = <<>>
    /\ history = <<>>
    /\ \E a \in KeyQueries, b \in KeyQueries :
          last = [op |-> "key_args", a |-> a, b |-> b]

\* the cache_key statement of find_restaurants_in_radius, for both queries
ComputeKeys ==
    /\ last.op = "key_args"
    /\ last' = [op |-> "keys", a |-> last.a, b |-> last.b,
                key_a |-> cache_key(last.a.latitude, last.a.longitude,
                                    last.a.current_time),
                key_b |-> cache_key(last.b.latitude, last.b.longitude,
                                    last.b.current_time)]
    /\ UNCHANGED <<stackVars, subjectVars>>
    /\ UNCHANGED <<indexVars, cacheVars, query_count, threadVars>>

KeyNext == ComputeKeys

SpecKey == KeyInit /\ [][KeyNext]_vars

\* x and y have the same nearest 4-decimal value (multiple of 10 units)
SameRounded(x, y) ==
    \E r \in -2..2 : Abs(x - 10 * r) < 5 /\ Abs(y - 10 * r) < 5

\* both instants omitted, or both given with the same hour and minute
SameMinute(s, t) ==
    \/ s = None /\ t = None
    \/ s # None /\ t # None /\ s[1] = t[1] /\ s[2] = t[2]

(* C19: two queries have the same cache key if and only if their latitudes   *)
(* round to the same 4-decimal value, their longitudes round to the same     *)
(* 4-decimal value, and either both omit the instant or both give instants   *)
(* with the same hour and the same minute, the seconds being ignored; a      *)
(* query with an instant never shares a key with a query without one.        *)
C19_KeyDerivation ==
    last.op = "keys" =>
        /\ (last.key_a = last.key_b)
              <=> /\ SameRounded(last.a.latitude, last.b.latitude)
                  /\ SameRounded(last.a.longitude, last.b.longitude)
                  /\ SameMinute(last.a.current_time, last.b.current_time)
        /\ ((last.a.current_time = None) # (last.b.current_time = None))
              => last.key_a # last.key_b

\* two queries that differ in latitude and in seconds and share their key
C19_Witness ==
    /\ last.op = "keys"
    /\ last.a.latitude # last.b.latitude
    /\ last.a.current_time # None /\ last.b.current_time # None
    /\ last.a.current_time[3] # last.b.current_time[3]
    /\ last.key_a = last.key_b

-----------------------------------------------------------------------------
(* SpatialIndexFactory.create_index on every index_type of a small alphabet *)

MaxTypeLen == 5     \* the longest index_type string

TypeChars == {"r", "t", "e"}

IndexTypes == UNION {[1..n -> TypeChars] : n \in 0..MaxTypeLen}

FactoryInit ==
    /\ restaurants = <<>> /\ idx = <<>> /\ dataset = <<>>
    /\ cache = <<>> /\ cache_size = 0 /\ cache_hits = 0 /\ cache_misses = 0
    /\ query_count = 0
    /\ pc = <<>> /\ local = <<>>
    /\ layers = <<>>
    /\ observers = <<>>
    /\ available_restaurants = {}
    /\ available_restaurants_of_interest = <<>>
    /\ history = <<>>
    /\ \E index_type \in IndexTypes :
          last = [op |-> "create_args", index_type |-> index_type]

\* one call SpatialIndexFactory.create_index(index_type, time_checker,
\* distance_calculator)
CreateIndex ==
    /\ last.op = "create_args"
    /\ LET out == create_index(last.index_type, "time_checker", "distance_calculator")
       IN last' = [op |-> "create_index", index_type |-> last.index_type,
                   raised |-> out.raised, error |-> out.error, value |-> out.value]
    /\ UNCHANGED <<stackVars, subjectVars>>
    /\ UNCHANGED <<indexVars, cacheVars, query_count, threadVars>>

FactoryNext == CreateIndex

SpecFactory == FactoryInit /\ [][FactoryNext]_vars

(* C20: create_index returns a SpatialIndex for index_type 'rtree' and       *)
(* raises ValueError for every other index_type, constructing and returning  *)
(* no substitute index.                                                      *)
C20_FactoryRejectsUnknown ==
    last.op = "create_index" =>
        IF last.index_type = RTREE
        THEN /\ ~last.raised
             /\ last.value = NewSpatialIndex("time_checker", "distance_calculator")
        ELSE /\ last.raised
             /\ last.error = "ValueError"
             /\ last.value = None

\* a five-letter type that is not 'rtree', refused
C20_Witness ==
    /\ last.op = "create_index"
    /\ Len(last.index_type) = 5
    /\ last.index_type # RTREE
    /\ last.raised

-----------------------------------------------------------------------------
(* Decorators nested over one SpatialIndex: layers[1] is the outermost, the  *)
(* base index (restaurants, idx) lies beneath the last layer.                *)

MaxDepth == 2       \* the number of decorators in a stack

\* LoggingSpatialIndex(spatial_index) after __init__
NewLoggingLayer ==
    [kind |-> "logging", query_count |-> 0,
     cache |-> <<>>, cache_size |-> 0, cache_hits |-> 0, cache_misses |-> 0]

\* CachingSpatialIndex(spatial_index, size) after __init__
NewCachingLayer(size) ==
    [kind |-> "caching", query_count |-> 0,
     cache |-> <<>>, cache_size |-> size, cache_hits |-> 0, cache_misses |-> 0]

\* find_restaurants_in_radius on the outermost layer of ls
RECURSIVE stack_find(_, _, _, _, _, _, _)
stack_find(ls, rs, ix, latitude, longitude, current_time, now) ==
    IF ls = <<>>
    THEN [layers |-> <<>>, raised |-> FALSE,
          result |-> find_restaurants_in_radius(rs, ix, latitude, longitude,
                                                current_time, now)]
    ELSE LET layer == Head(ls)
             key == cache_key(latitude, longitude, current_time)
             below == stack_find(Tail(ls), rs, ix, latitude, longitude,
                                 current_time, now)
         IN IF layer.kind = "logging"
            THEN [layers |-> <<[layer EXCEPT !.query_count = @ + 1]>> \o below.layers,
                  raised |-> below.raised, result |-> below.result]
            ELSE IF CacheHas(layer.cache, key)
            THEN LET out == caching_hit(layer.cache, layer.cache_hits,
                                        layer.cache_misses, key)
                 IN [layers |-> <<[layer EXCEPT !.cache_hits = out.cache_hits]>>
                                    \o Tail(ls),
                     raised |-> FALSE, result |-> out.result]
            ELSE IF below.raised
            THEN [layers |-> <<[layer EXCEPT !.cache_misses = @ + 1]>> \o below.layers,
                  raised |-> TRUE, result |-> <<>>]
            ELSE LET out == caching_miss(layer.cache, layer.cache_size,
                                         layer.cache_hits, layer.cache_misses,
                                         key, below.result)
                 IN [layers |-> <<[layer EXCEPT !.cache = out.cache,
                                                !.cache_misses = out.cache_misses]>>
                                    \o below.layers,
                     raised |-> out.raised, result |-> out.result]

\* build_index on the outermost layer of ls; base_calls counts the calls of
\* SpatialIndex.build_index
RECURSIVE stack_build(_, _, _, _)
stack_build(ls, rs, ix, restaurants_data) ==
    IF ls = <<>>
    THEN [layers |-> <<>>, built |-> build_index(rs, ix, restaurants_data),
          base_calls |-> 1]
    ELSE LET layer == Head(ls)
             below == stack_build(Tail(ls), rs, ix, restaurants_data)
             cleared == caching_clear(layer.cache_hits, layer.cache_misses)
         IN [layers |-> <<IF layer.kind = "logging"
                          THEN [layer EXCEPT !.query_count = 0]
                          ELSE [layer EXCEPT !.cache = cleared.cache,
                                             !.cache_hits = cleared.cache_hits,
                                             !.cache_misses = cleared.cache_misses]>>
                            \o below.layers,
             built |-> below.built, base_calls |-> below.base_calls]

StackLayers == {NewLoggingLayer} \cup {NewCachingLayer(c) : c \in 0..MaxCacheSize}

StackLatitudes == {0, 6}

\* the calls the outermost layer has seen since its last build
OuterCount(ls) ==
    IF ls = <<>> THEN 0
    ELSE IF ls[1].kind = "logging" THEN ls[1].query_count
    ELSE ls[1].cache_hits + ls[1].cache_misses

StackInit ==
    /\ restaurants = <<>> /\ idx = <<>> /\ dataset = <<>>
    /\ cache = <<>> /\ cache_size = 0 /\ cache_hits = 0 /\ cache_misses = 0
    /\ query_count = 0
    /\ pc = <<>> /\ local = <<>>
    /\ layers \in UNION {[1..n -> StackLayers] : n \in 0..MaxDepth}
    /\ observers = <<>>
    /\ available_restaurants = {}
    /\ available_restaurants_of_interest = <<>>
    /\ history = <<>>
    /\ last = NoCall

\* build_index on the outermost layer
StackBuildIndex(restaurants_data) ==
    /\ Len(idx) + Len(restaurants_data) <= MaxEntries
    /\ LET out == stack_build(layers, restaurants, idx, restaurants_data)
       IN /\ layers' = out.layers
          /\ restaurants' = out.built[1]
          /\ idx' = out.built[2]
          /\ last' = [op |-> "stack_build", base_calls |-> out.base_calls]
    /\ dataset' = restaurants_data
    /\ UNCHANGED <<cacheVars, query_count, threadVars, subjectVars>>

\* find_restaurants_in_radius on the outermost layer
StackFind(latitude, longitude, current_time, now) ==
    /\ OuterCount(layers) < MaxQueries
    /\ LET out == stack_find(layers, restaurants, idx, latitude, longitude,
                             current_time, now)
       IN /\ layers' = out.layers
          /\ last' = [op |-> "stack_find", latitude |-> latitude,
                      longitude |-> longitude, current_time |-> current_time,
                      instant |-> IF current_time = None THEN now ELSE current_time,
                      key |-> cache_key(latitude, longitude, current_time),
                      raised |-> out.raised, result |-> out.result]
    /\ UNCHANGED <<indexVars, cacheVars, query_count, threadVars, subjectVars>>

StackNext ==
    \/ \E df \in CacheFrames : StackBuildIndex(df)
    \/ \E la \in StackLatitudes : StackFind(la, 0, <<15, 0, 0>>, <<15, 0, 0>>)
    \/ \E la \in StackLatitudes, now \in QueryTimes : StackFind(la, 0, None, now)

SpecStack == StackInit /\ [][StackNext]_vars

\* layer i of the stack is reached by a query with this key: no caching layer
\* above it holds the key
Reached(i, key) ==
    \A j \in 1..(i - 1) :
        layers[j].kind = "caching" => ~CacheHas(layers[j].cache, key)

(* C21: decorators compose at any depth: for any nesting of                  *)
(* LoggingSpatialIndex and CachingSpatialIndex layers over a SpatialIndex, a *)
(* query on the outermost layer returns the list of the layer beneath        *)
(* unchanged, every LoggingSpatialIndex it passes adds exactly one to its    *)
(* query_count and every CachingSpatialIndex it reaches records exactly one  *)
(* hit or one miss; a build_index on the outermost layer reaches the base    *)
(* index exactly once and leaves every cache empty with all counters zero.   *)
C21_DecoratorsCompose ==
    [][/\ last'.op = "stack_find" =>
            LET key == last'.key
                served == {i \in 1..Len(layers) :
                              /\ Reached(i, key)
                              /\ layers[i].kind = "caching"
                              /\ CacheHas(layers[i].cache, key)}
            IN /\ ~last'.raised
               /\ last'.result =
                     IF served = {}
                     THEN find_restaurants_in_radius(restaurants, idx,
                              last'.latitude, last'.longitude,
                              last'.current_time, last'.instant)
                     ELSE CacheGet(layers[CHOOSE i \in served : TRUE].cache, key)
               /\ Len(layers') = Len(layers)
               /\ \A i \in 1..Len(layers) :
                     LET step == IF Reached(i, key) THEN 1 ELSE 0
                     IN /\ layers'[i].query_count
                             = layers[i].query_count
                               + (IF layers[i].kind = "logging" THEN step ELSE 0)
                        /\ layers'[i].cache_hits + layers'[i].cache_misses
                             = layers[i].cache_hits + layers[i].cache_misses
                               + (IF layers[i].kind = "caching" THEN step ELSE 0)
       /\ last'.op = "stack_build" =>
            /\ last'.base_calls = 1
            /\ <<restaurants', idx'>> = build_index(restaurants, idx, dataset')
            /\ \A i \in 1..Len(layers') :
                  /\ layers'[i].cache = <<>>
                  /\ layers'[i].cache_hits = 0
                  /\ layers'[i].cache_misses = 0
                  /\ layers'[i].query_count = 0]_vars

-----------------------------------------------------------------------------
(* DistanceCalculator.calculate_distance on pairs of points *)

\* points up to 1.5 degrees of latitude and 2.5 degrees of longitude apart
DistancePoints ==
    {[latitude |-> la, longitude |-> lo] :
        la \in {-100000, 0, 50000}, lo \in {0, 100000, 250000}}

DistanceInit ==
    /\ restaurants = <<>> /\ idx = <<>> /\ dataset = <<>>
    /\ cache = <<>> /\ cache_size = 0 /\ cache_hits = 0 /\ cache_misses = 0
    /\ query_count = 0
    /\ pc = <<>> /\ local = <<>>
    /\ layers = <<>>
    /\ observers = <<>>
    /\ available_restaurants = {}
    /\ available_restaurants_of_interest = <<>>
    /\ history = <<>>
    /\ \E a \in DistancePoints, b \in DistancePoints :
          last = [op |-> "distance_args", a |-> a, b |-> b]

\* calculate_distance called from a to b, from b to a and from a to a
CalculateDistances ==
    /\ last.op = "distance_args"
    /\ last' = [op |-> "distance", a |-> last.a, b |-> last.b,
                ab |-> calculate_distance(last.a.latitude, last.a.longitude,
                                          last.b.latitude, last.b.longitude),
                ba |-> calculate_distance(last.b.latitude, last.b.longitude,
                                          last.a.latitude, last.a.longitude),
                aa |-> calculate_distance(last.a.latitude, last.a.longitude,
                                          last.a.latitude, last.a.longitude)]
    /\ UNCHANGED <<indexVars, cacheVars, query_count, threadVars, stackVars,
                   subjectVars>>

DistanceNext == CalculateDistances

SpecDistance == DistanceInit /\ [][DistanceNext]_vars

-----------------------------------------------------------------------------
(* composite.py: CircleRegion, UnionRegion and IntersectionRegion *)

MaxChildren == 2

\* CircleRegion.__init__
CircleRegion(center_lat, center_lon, radius_km) ==
    [kind |-> "circle", center_lat |-> center_lat, center_lon |-> center_lon,
     radius_km |-> radius_km, regions |-> <<>>]

\* CompositeRegion.__init__ as inherited by UnionRegion and IntersectionRegion
CompositeRegion(kind) ==
    [kind |-> kind, center_lat |-> 0, center_lon |-> 0, radius_km |-> 0,
     regions |-> <<>>]

\* CompositeRegion.add_region
add_region(composite, region) ==
    [composite EXCEPT !.regions = Append(@, region)]

\* Region.contains of the three classes; 50.5 and 5.5 degrees are 5050000 and
\* 550000 in the model's unit, 51.1 and 6.1 degrees are 5110000 and 610000
RECURSIVE contains(_, _, _)
contains(region, latitude, longitude) ==
    IF region.kind = "circle"
    THEN IF \/ (latitude = 5050000 /\ longitude = 550000)
            \/ (latitude = 5110000 /\ longitude = 610000)
         THEN TRUE
         ELSE calculate_distance(region.center_lat, region.center_lon,
                                 latitude, longitude) <= region.radius_km
    ELSE IF region.kind = "union"
    THEN \E i \in 1..Len(region.regions) :
            contains(region.regions[i], latitude, longitude)
    ELSE /\ region.regions # <<>>
         /\ \A i \in 1..Len(region.regions) :
               contains(region.regions[i], latitude, longitude)

\* circles centred at (50.0, 5.5) and (51.0, 6.0) degrees
Circles ==
    {CircleRegion(c[1], c[2], r) :
        c \in {<<5000000, 550000>>, <<5100000, 600000>>}, r \in {5, 60}}

\* (50.5, 5.5), (51.1, 6.1), the first centre, and a point 49 km north of it
RegionPoints ==
    {<<5050000, 550000>>, <<5110000, 610000>>, <<5000000, 550000>>,
     <<5045000, 550000>>}

RegionInit ==
    /\ restaurants = <<>> /\ idx = <<>> /\ dataset = <<>>
    /\ cache = <<>> /\ cache_size = 0 /\ cache_hits = 0 /\ cache_misses = 0
    /\ query_count = 0
    /\ pc = <<>> /\ local = <<>>
    /\ layers = <<>>
    /\ observers = <<>>
    /\ available_restaurants = {}
    /\ available_restaurants_of_interest = <<>>
    /\ history = <<>>
    /\ \E region \in Circles \cup {CompositeRegion("union"),
                                   CompositeRegion("intersection")},
          point \in RegionPoints :
          last = [op |-> "region", region |-> region, latitude |-> point[1],
                  longitude |-> point[2], result |-> FALSE]

\* composite.add_region(circle)
AddRegion(region) ==
    /\ last.op \in {"region", "add_region", "contains"}
    /\ last.region.kind # "circle"
    /\ Len(last.region.regions) < MaxChildren
    /\ last' = [last EXCEPT !.op = "add_region",
                            !.region = add_region(@, region),
                            !.result = FALSE]
    /\ UNCHANGED <<indexVars, cacheVars, query_count, threadVars, stackVars,
                   subjectVars>>

\* region.contains(latitude, longitude)
Contains ==
    /\ last.op \in {"region", "add_region"}
    /\ last' = [last EXCEPT !.op = "contains",
                            !.result = contains(last.region, last.latitude,
                                                last.longitude)]
    /\ UNCHANGED <<indexVars, cacheVars, query_count, threadVars, stackVars,
                   subjectVars>>

RegionNext ==
    \/ \E region \in Circles : AddRegion(region)
    \/ Contains

SpecRegion == RegionInit /\ [][RegionNext]_vars

(* C23: a circle contains a point exactly when the distance from its centre  *)
(* to the point is at most radius_km; a union contains a point exactly when  *)
(* at least one child contains it; an intersection contains a point exactly  *)
(* when it has at least one child and every child contains the point.        *)
C23_RegionContains ==
    last.op = "contains" =>
        LET region == last.region
            children == {region.regions[i] : i \in 1..Len(region.regions)}
        IN /\ region.kind = "circle" =>
                (last.result <=>
                    calculate_distance(region.center_lat, region.center_lon,
                                       last.latitude, last.longitude)
                        <= region.radius_km)
           /\ region.kind = "union" =>
                (last.result <=>
                    \E child \in children :
                        contains(child, last.latitude, last.longitude))
           /\ region.kind = "intersection" =>
                (last.result <=>
                    /\ children # {}
                    /\ \A child \in children :
                          contains(child, last.latitude, last.longitude))

-----------------------------------------------------------------------------
(* observer.py: RestaurantAvailabilitySubject and AvailabilityMonitor *)

\* restaurants_of_interest of the two monitors
Interests == <<{1}, Ids>>

Monitors == DOMAIN Interests

\* Subject.attach with a fault: no membership test (the list is kept finite)
attach_unchecked(obs, observer) ==
    IF Len(obs) >= 2 * Cardinality(Monitors) THEN obs ELSE Append(obs, observer)

\* Subject.attach
attach(obs, observer) ==
    IF observer \notin Range(obs) THEN Append(obs, observer) ELSE obs

\* list.remove: the first occurrence is removed
RECURSIVE list_remove(_, _)
list_remove(obs, observer) ==
    IF obs = <<>> THEN <<>>
    ELSE IF Head(obs) = observer THEN Tail(obs)
    ELSE <<Head(obs)>> \o list_remove(Tail(obs), observer)

\* Subject.detach
detach(obs, observer) ==
    IF observer \in Range(obs) THEN list_remove(obs, observer) ELSE obs

\* the subject's set update with a fault: an id is never discarded
update_internal_state_add_only(available, restaurant_id, available_flag) ==
    IF available_flag THEN available \cup {restaurant_id} ELSE available

\* the subject's set update in notify_availability_change
update_internal_state(available, restaurant_id, available_flag) ==
    IF available_flag THEN available \cup {restaurant_id}
                    ELSE available \ {restaurant_id}

\* AvailabilityMonitor.update on the monitor's own set
update(of_interest, restaurants_of_interest, restaurant_id, available_flag) ==
    IF restaurant_id \in restaurants_of_interest
    THEN IF available_flag THEN of_interest \cup {restaurant_id}
                         ELSE of_interest \ {restaurant_id}
    ELSE of_interest

\* for observer in self.observers: observer.update(restaurant_id, available_flag)
RECURSIVE notify_observers(_, _, _, _)
notify_observers(obs, sets, restaurant_id, available_flag) ==
    IF obs = <<>> THEN sets
    ELSE notify_observers(
             Tail(obs),
             [sets EXCEPT ![Head(obs)] =
                 update(@, Interests[Head(obs)], restaurant_id, available_flag)],
             restaurant_id, available_flag)

\* history records what the callers did: the latest notification per id, the
\* monitors the callers hold attached, those attached again while attached,
\* and those that were not attached during some notification
ObserverInit ==
    /\ restaurants = <<>> /\ idx = <<>> /\ dataset = <<>>
    /\ cache = <<>> /\ cache_size = 0 /\ cache_hits = 0 /\ cache_misses = 0
    /\ query_count = 0
    /\ pc = <<>> /\ local = <<>>
    /\ layers = <<>>
    /\ observers = <<>>
    /\ available_restaurants = {}
    /\ available_restaurants_of_interest = [m \in Monitors |-> {}]
    /\ history = [latest |-> [i \in Ids |-> "none"], attached |-> {},
                  repeated |-> {}, missed |-> {}]
    /\ last = [op |-> "init", observer |-> 0, restaurant_id |-> 0,
               is_available |-> FALSE, before |-> {}, delivered |-> <<>>]

Attach(observer) ==
    /\ observers' = attach(observers, observer)
    /\ history' = [history EXCEPT
                      !.repeated = IF observer \in history.attached
                                   THEN @ \cup {observer} ELSE @,
                      !.attached = @ \cup {observer}]
    /\ last' = [op |-> "attach", observer |-> observer, restaurant_id |-> 0,
                is_available |-> FALSE, before |-> available_restaurants,
                delivered |-> <<>>]
    /\ UNCHANGED <<indexVars, cacheVars, query_count, threadVars, stackVars,
                   available_restaurants, available_restaurants_of_interest>>

Detach(observer) ==
    /\ observers' = detach(observers, observer)
    /\ history' = [history EXCEPT !.repeated = @ \ {observer},
                                  !.attached = @ \ {observer}]
    /\ last' = [op |-> "detach", observer |-> observer, restaurant_id |-> 0,
                is_available |-> FALSE, before |-> available_restaurants,
                delivered |-> <<>>]
    /\ UNCHANGED <<indexVars, cacheVars, query_count, threadVars, stackVars,
                   available_restaurants, available_restaurants_of_interest>>

NotifyAvailabilityChange(restaurant_id, available_flag) ==
    /\ available_restaurants' =
           update_internal_state(available_restaurants, restaurant_id,
                                 available_flag)
    /\ available_restaurants_of_interest' =
           notify_observers(observers, available_restaurants_of_interest,
                            restaurant_id, available_flag)
    /\ history' = [history EXCEPT
                      !.latest[restaurant_id] =
                          IF available_flag THEN "available" ELSE "unavailable",
                      !.missed = @ \cup (Monitors \ history.attached)]
    /\ last' = [op |-> "notify", observer |-> 0,
                restaurant_id |-> restaurant_id,
                is_available |-> available_flag,
                before |-> available_restaurants, delivered |-> observers]
    /\ UNCHANGED <<indexVars, cacheVars, query_count, threadVars, stackVars,
                   observers>>

ObserverNext ==
    \/ \E observer \in Monitors : Attach(observer)
    \/ \E observer \in Monitors : Detach(observer)
    \/ \E restaurant_id \in Ids, available_flag \in BOOLEAN :
          NotifyAvailabilityChange(restaurant_id, available_flag)

SpecObserver == ObserverInit /\ [][ObserverNext]_vars

\* Subject.get_available_restaurants: a copy of the set
get_available_restaurants == available_restaurants

\* AvailabilityMonitor.get_available_restaurants_of_interest: a copy of the set
get_available_restaurants_of_interest(monitor) ==
    available_restaurants_of_interest[monitor]

(* C24: after any sequence of notifications, get_available_restaurants is    *)
(* exactly the set of ids whose most recent notification had available_flag =  *)
(* True, whichever observers were attached or detached in between.           *)
C24_AvailableIsLatest ==
    get_available_restaurants =
        {i \in Ids : history.latest[i] = "available"}

\* a notification withdrew an id that was available, another id is still
\* available, and some monitor was detached during a notification
C24_Witness ==
    /\ last.op = "notify"
    /\ ~last.is_available
    /\ last.restaurant_id \in last.before
    /\ get_available_restaurants # {}
    /\ history.missed # {}

\* the number of update calls an observer received in one notification
Deliveries(delivered, observer) ==
    Cardinality({k \in 1..Len(delivered) : delivered[k] = observer})

(* C25: every notification is delivered exactly once to each observer        *)
(* attached at that moment, also one that was attached twice, and never to a *)
(* detached observer; a monitor that was attached during every notification  *)
(* holds exactly the available ids of its restaurants_of_interest.           *)
C25_DeliveredOnce ==
    /\ last.op = "notify" =>
          \A m \in Monitors :
              Deliveries(last.delivered, m) =
                  IF m \in history.attached THEN 1 ELSE 0
    /\ \A m \in Monitors \ history.missed :
          get_available_restaurants_of_interest(m) =
              get_available_restaurants \cap Interests[m]

\* a notification reached a monitor that was attached twice and has missed
\* nothing, while the other monitor is detached and has missed one
C25_Witness ==
    /\ last.op = "notify"
    /\ \E m \in history.repeated \ history.missed :
          /\ Deliveries(last.delivered, m) = 1
          /\ get_available_restaurants_of_interest(m) # {}
          /\ get_available_restaurants \ Interests[m] # {}
    /\ \E m \in history.missed \ history.attached :
          get_available_restaurants_of_interest(m) #
              get_available_restaurants \cap Interests[m]

-----------------------------------------------------------------------------
(* filter_strategy.py: DistanceAndTimeFilterStrategy and RatingFilterStrategy *)

\* DistanceAndTimeFilterStrategy.filter_restaurants
RECURSIVE base_filter_restaurants(_, _, _, _, _, _)
base_filter_restaurants(candidates, rs, user_lat, user_lon, current_time, now) ==
    IF candidates = <<>> THEN <<>>
    ELSE LET restaurant == rs[Head(candidates)]
             rest == base_filter_restaurants(Tail(candidates), rs, user_lat,
                                             user_lon, current_time, now)
         IN IF /\ calculate_distance(user_lat, user_lon, restaurant.latitude,
                                     restaurant.longitude)
                     <= restaurant.availability_radius
               /\ is_open(restaurant.open_hour, restaurant.close_hour,
                          current_time, now)
            THEN <<Head(candidates)>> \o rest
            ELSE rest

\* the rating test with a fault: a rating equal to min_rating is rejected
rating_passes_strict(rating, min_rating) == rating > min_rating

\* restaurants[restaurant_id]['rating'] >= self.min_rating
rating_passes(rating, min_rating) == rating >= min_rating

\* the list comprehension over base_results
RECURSIVE filter_by_rating(_, _, _)
filter_by_rating(base_results, rs, min_rating) ==
    IF base_results = <<>> THEN <<>>
    ELSE LET rest == filter_by_rating(Tail(base_results), rs, min_rating)
         IN IF rating_passes(rs[Head(base_results)].rating, min_rating)
            THEN <<Head(base_results)>> \o rest
            ELSE rest

\* RatingFilterStrategy.filter_restaurants
rating_filter_restaurants(min_rating, candidates, rs, user_lat, user_lon, current_time, now) ==
    filter_by_rating(
        base_filter_restaurants(candidates, rs, user_lat, user_lon,
                                current_time, now),
        rs, min_rating)

\* ratings are held in tenths: 3.5, 4.0 and 4.7; a restaurant is at the user's
\* place or 55 km north of it
FilterProfiles ==
    {[latitude |-> la, rating |-> ra] : la \in {0, 50000}, ra \in {35, 40, 47}}

\* the restaurants dict for one choice of profile per id
FilterRestaurants(profile) ==
    [i \in Ids |->
        [id |-> i, latitude |-> profile[i].latitude, longitude |-> 0,
         availability_radius |-> 5,
         open_hour |-> DayWindow.open_hour, close_hour |-> DayWindow.close_hour,
         rating |-> profile[i].rating]]

\* candidate lists: every order of every selection of ids
FilterCandidates ==
    {c \in UNION {[1..k -> Ids] : k \in 0..MaxId} :
        \A i, j \in 1..Len(c) : c[i] = c[j] => i = j}

\* min_rating 4.0 (the default) and 4.5 (the test's)
MinRatings == {40, 45}

\* (current_time, what the clock reads): an instant given or omitted
FilterTimes ==
    {<<<<15, 0, 0>>, <<15, 0, 0>>>>, <<<<2, 0, 0>>, <<2, 0, 0>>>>,
     <<None, <<15, 0, 0>>>>, <<None, <<2, 0, 0>>>>}

FilterInit ==
    /\ idx = <<>> /\ dataset = <<>>
    /\ cache = <<>> /\ cache_size = 0 /\ cache_hits = 0 /\ cache_misses = 0
    /\ query_count = 0
    /\ pc = <<>> /\ local = <<>>
    /\ layers = <<>>
    /\ observers = <<>>
    /\ available_restaurants = {}
    /\ available_restaurants_of_interest = <<>>
    /\ history = <<>>
    /\ \E profile \in [Ids -> FilterProfiles] :
          restaurants = FilterRestaurants(profile)
    /\ \E candidates \in FilterCandidates, min_rating \in MinRatings,
          t \in FilterTimes :
          last = [op |-> "filter_args", candidates |-> candidates,
                  min_rating |-> min_rating, current_time |-> t[1],
                  instant |-> t[2], base_results |-> <<>>, result |-> <<>>]

\* RatingFilterStrategy(base, min_rating).filter_restaurants(candidates,
\* restaurants, 0.0, 0.0, current_time)
FilterByRating ==
    /\ last.op = "filter_args"
    /\ last' = [last EXCEPT
                   !.op = "filter",
                   !.base_results =
                       base_filter_restaurants(last.candidates, restaurants, 0, 0,
                                               last.current_time, last.instant),
                   !.result =
                       rating_filter_restaurants(last.min_rating, last.candidates,
                                                 restaurants, 0, 0,
                                                 last.current_time, last.instant)]
    /\ UNCHANGED <<indexVars, cacheVars, query_count, threadVars, stackVars,
                   subjectVars>>

FilterNext == FilterByRating

SpecFilter == FilterInit /\ [][FilterNext]_vars

(* C27: the rating filter returns exactly the ids its base strategy returns  *)
(* for the same arguments whose rating is at least min_rating, in the base   *)
(* strategy's order; it returns no id the base strategy rejected, and keeps  *)
(* an id whose rating equals min_rating.                                     *)
C27_RatingFilter ==
    last.op = "filter" =>
        LET Kept(id) == restaurants[id].rating >= last.min_rating
        IN /\ last.result = SelectSeq(last.base_results, Kept)
           /\ Range(last.result) \subseteq Range(last.base_results)
           /\ \A id \in Range(last.base_results) :
                 restaurants[id].rating = last.min_rating
                     => id \in Range(last.result)

\* the base strategy returned the ids in descending order, the rating filter
\* kept one whose rating equals min_rating and dropped one rated lower, and
\* the instant was omitted
C27_Witness ==
    /\ last.op = "filter"
    /\ last.current_time = None
    /\ Len(last.base_results) >= 2
    /\ last.base_results[1] > last.base_results[2]
    /\ \E id \in Range(last.result) : restaurants[id].rating = last.min_rating
    /\ Range(last.base_results) \ Range(last.result) # {}

-----------------------------------------------------------------------------
(* restaurant_lookup.py: RestaurantLookupService over a SpatialIndex *)

MaxLines == 2

\* str.strip() for blanks; a line is a sequence of characters
RECURSIVE strip(_)
strip(text) ==
    IF text = <<>> THEN <<>>
    ELSE IF Head(text) = " " THEN strip(Tail(text))
    ELSE IF text[Len(text)] = " " THEN strip(SubSeq(text, 1, Len(text) - 1))
    ELSE text

\* str.split(','): the fields between the commas, at least one
RECURSIVE split(_, _)
split(text, field) ==
    IF text = <<>> THEN <<field>>
    ELSE IF Head(text) = "," THEN <<field>> \o split(Tail(text), <<>>)
    ELSE split(Tail(text), Append(field, Head(text)))

\* one row of csv.reader for a line without quotes: an empty line gives []
csv_reader_row(line) == IF line = <<>> THEN <<>> ELSE split(line, <<>>)

\* the value of a string of decimal digits
RECURSIVE DigitsValue(_)
DigitsValue(digits) ==
    IF digits = <<>> THEN 0
    ELSE 10 * DigitsValue(SubSeq(digits, 1, Len(digits) - 1))
         + DigitValue(digits[Len(digits)])

\* float with a fault: a text that is no number is read as 0.0
float_lenient(text) ==
    LET digits == strip(text)
    IN IF digits # <<>> /\ Range(digits) \subseteq Range(DigitChars)
       THEN [ok |-> TRUE, value |-> 100000 * DigitsValue(digits)]
       ELSE [ok |-> TRUE, value |-> 0]

\* float(text) for whole degrees: blanks around the digits are accepted,
\* anything else raises ValueError (ok = FALSE)
float(text) ==
    LET digits == strip(text)
    IN IF digits # <<>> /\ Range(digits) \subseteq Range(DigitChars)
       THEN [ok |-> TRUE, value |-> 100000 * DigitsValue(digits)]
       ELSE [ok |-> FALSE, value |-> 0]

NoRecord == [results |-> <<>>, queries |-> <<>>]

\* the try block both methods share: two float conversions, one query, one
\* record appended; a ValueError leaves the results as they are
query_location(rs, ix, lat_text, lon_text, instant) ==
    LET lat == float(lat_text)
        lon == float(lon_text)
    IN IF ~lat.ok \/ ~lon.ok THEN NoRecord
       ELSE [results |->
                <<[location |-> <<lat.value, lon.value>>,
                   restaurants |->
                       find_restaurants_in_radius(rs, ix, lat.value, lon.value,
                                                  instant, instant)]>>,
             queries |-> <<<<lat.value, lon.value>>>>]

\* the loop of process_user_locations; queries lists the calls of
\* find_restaurants_in_radius
RECURSIVE process_user_locations(_, _, _, _)
process_user_locations(lines, rs, ix, current_time) ==
    IF lines = <<>> THEN NoRecord
    ELSE LET line == strip(Head(lines))
             parts == split(line, <<>>)
             this == IF line = <<>> THEN NoRecord
                     ELSE IF Len(parts) # 2 THEN NoRecord
                     ELSE query_location(rs, ix, parts[1], parts[2], current_time)
             rest == process_user_locations(Tail(lines), rs, ix, current_time)
         IN [results |-> this.results \o rest.results,
             queries |-> this.queries \o rest.queries]

\* the loop of find_restaurants_for_users
RECURSIVE find_restaurants_for_users(_, _, _, _)
find_restaurants_for_users(lines, rs, ix, now) ==
    IF lines = <<>> THEN NoRecord
    ELSE LET row == csv_reader_row(Head(lines))
             this == IF row = <<>> THEN NoRecord
                     ELSE IF Len(row) < 2 THEN NoRecord
                     ELSE query_location(rs, ix, row[1], row[2], now)
             rest == find_restaurants_for_users(Tail(lines), rs, ix, now)
         IN [results |-> this.results \o rest.results,
             queries |-> this.queries \o rest.queries]

\* the lines a user file is made of, each with the class the claim puts it in
UserLines ==
    { [text |-> <<"0", ",", "0">>, class |-> "well_formed",
       latitude |-> 0, longitude |-> 0],
      [text |-> <<"1", ",", "0">>, class |-> "well_formed",
       latitude |-> 100000, longitude |-> 0],
      [text |-> <<" ", "0", ",", "0", " ">>, class |-> "well_formed",
       latitude |-> 0, longitude |-> 0],
      [text |-> <<>>, class |-> "empty", latitude |-> 0, longitude |-> 0],
      [text |-> <<" ">>, class |-> "empty", latitude |-> 0, longitude |-> 0],
      [text |-> <<"0">>, class |-> "missing", latitude |-> 0, longitude |-> 0],
      [text |-> <<"0", ",">>, class |-> "missing",
       latitude |-> 0, longitude |-> 0],
      [text |-> <<"x", ",", "0">>, class |-> "non_numeric",
       latitude |-> 0, longitude |-> 0],
      [text |-> <<"0", ",", "x">>, class |-> "non_numeric",
       latitude |-> 0, longitude |-> 0] }

\* user files of at most MaxLines lines
UserFiles == UNION {[1..n -> {u.text : u \in UserLines}] : n \in 0..MaxLines}

ServiceInit ==
    /\ restaurants = <<>> /\ idx = <<>> /\ dataset = <<>>
    /\ cache = <<>> /\ cache_size = 0 /\ cache_hits = 0 /\ cache_misses = 0
    /\ query_count = 0
    /\ pc = <<>> /\ local = <<>>
    /\ layers = <<>>
    /\ observers = <<>>
    /\ available_restaurants = {}
    /\ available_restaurants_of_interest = <<>>
    /\ history = <<>>
    /\ \E lines \in UserFiles, instant \in QueryTimes :
          last = [op |-> "service", lines |-> lines, instant |-> instant,
                  restaurants_loaded |-> FALSE, raised |-> FALSE,
                  results |-> <<>>, queries |-> <<>>]

\* service.load_restaurant_data(source) for the fixture's row
LoadRestaurantData ==
    /\ last.op = "service"
    /\ LET built == build_index(restaurants, idx, <<FixtureRow>>)
       IN /\ restaurants' = built[1]
          /\ idx' = built[2]
    /\ dataset' = <<FixtureRow>>
    /\ last' = [last EXCEPT !.op = "load_restaurant_data",
                            !.restaurants_loaded = TRUE]
    /\ UNCHANGED <<cacheVars, query_count, threadVars, stackVars, subjectVars>>

\* service.process_user_locations(user_locations_path, output_path); the
\* instant is datetime.now().time(), read once
ProcessUserLocations ==
    /\ last.op \in {"service", "load_restaurant_data"}
    /\ LET done == process_user_locations(last.lines, restaurants, idx,
                                          last.instant)
       IN last' = [last EXCEPT !.op = "process_user_locations",
                               !.results = done.results,
                               !.queries = done.queries]
    /\ UNCHANGED <<indexVars, cacheVars, query_count, threadVars, stackVars,
                   subjectVars>>

\* service.find_restaurants_for_users(users_file, output_file): ValueError
\* before any line is read when no restaurant data was loaded
FindRestaurantsForUsers ==
    /\ last.op \in {"service", "load_restaurant_data"}
    /\ LET done == find_restaurants_for_users(last.lines, restaurants, idx,
                                              last.instant)
       IN last' = IF ~last.restaurants_loaded
                  THEN [last EXCEPT !.op = "find_restaurants_for_users",
                                    !.raised = TRUE]
                  ELSE [last EXCEPT !.op = "find_restaurants_for_users",
                                    !.results = done.results,
                                    !.queries = done.queries]
    /\ UNCHANGED <<indexVars, cacheVars, query_count, threadVars, stackVars,
                   subjectVars>>

ServiceNext ==
    \/ LoadRestaurantData
    \/ ProcessUserLocations
    \/ FindRestaurantsForUsers

SpecService == ServiceInit /\ [][ServiceNext]_vars

\* the class and coordinates of a line
LineOf(text) == CHOOSE u \in UserLines : u.text = text

\* the well-formed lines of a file, in input order
WellFormedLines(lines) ==
    LET IsWellFormed(text) == LineOf(text).class = "well_formed"
    IN SelectSeq(lines, IsWellFormed)

(* C26: the service processes the user file line by line without aborting:   *)
(* the results hold exactly one record per well-formed line, in input order, *)
(* each from exactly one find_restaurants_in_radius call; empty lines, lines *)
(* with a missing coordinate and lines with a non-numeric coordinate give no *)
(* record and no query.                                                      *)
C26_ServiceSkipsBadLines ==
    (/\ last.op \in {"process_user_locations", "find_restaurants_for_users"}
     /\ last.op = "find_restaurants_for_users" => last.restaurants_loaded)
    => LET good == WellFormedLines(last.lines)
       IN /\ ~last.raised
          /\ Len(last.results) = Len(good)
          /\ Len(last.queries) = Len(good)
          /\ \A k \in 1..Len(good) :
                LET u == LineOf(good[k])
                IN /\ last.queries[k] = <<u.latitude, u.longitude>>
                   /\ last.results[k].location = <<u.latitude, u.longitude>>
                   /\ last.results[k].restaurants =
                          find_restaurants_in_radius(restaurants, idx,
                                                     u.latitude, u.longitude,
                                                     last.instant, last.instant)

\* a file whose first line has a non-numeric coordinate and whose second line
\* is well-formed was processed by find_restaurants_for_users, and the one
\* record names a restaurant
C26_Witness ==
    /\ last.op = "find_restaurants_for_users"
    /\ last.restaurants_loaded
    /\ Len(last.lines) >= 2
    /\ LineOf(last.lines[1]).class = "non_numeric"
    /\ LineOf(last.lines[2]).class = "well_formed"
    /\ Len(last.results) = 1
    /\ last.results[1].restaurants # <<>>

-----------------------------------------------------------------------------
(* The order of eviction, checked under SpecCache *)

\* the keys of the cache in the dict's order
KeyOrder(c) == [i \in 1..Len(c) |-> c[i].key]

-----------------------------------------------------------------------------
(* The cache and the clock: queries at one place around closing time *)

\* the fixture's restaurant closes at 23:00:00
ClosingTimes == {None, <<23, 0, 0>>, <<23, 0, 30>>}

\* what the clock may read when the instant is omitted
ClockReadings == {<<15, 0, 0>>, <<2, 0, 0>>}

ClockNext ==
    \/ CachingBuildIndex(<<FixtureRow>>)
    \/ \E t \in ClosingTimes \ {None} : CachingFind(0, 0, t, t)
    \/ \E now \in ClockReadings : CachingFind(0, 0, None, now)

SpecClock == CacheInit /\ [][ClockNext]_vars

(* C28: the cache is transparent with respect to time: a hit that follows    *)
(* the miss which filled the entry, at identical coordinates, returns the    *)
(* list the wrapped index would return for the hit's own instant, also when  *)
(* the two instants differ only in seconds and when the instant is omitted.  *)
C28_TimeTransparent ==
    [][(/\ last.op = "cache_find" /\ ~last.present /\ ~last.raised
        /\ last'.op = "cache_find" /\ last'.key = last.key
        /\ last'.latitude = last.latitude /\ last'.longitude = last.longitude
        /\ CacheHas(cache, last'.key))
       => last'.result =
              find_restaurants_in_radius(restaurants, idx, last'.latitude,
                                         last'.longitude, last'.current_time,
                                         last'.instant)]_vars

-----------------------------------------------------------------------------
(* A caller that changes the list a query returned *)

\* the caller appends to the list it received from the miss that filled the
\* entry; decorator.py stores and returns one and the same list object
CallerMutates ==
    /\ last.op = "cache_find"
    /\ ~last.present /\ ~last.raised
    /\ CacheHas(cache, last.key)
    /\ cache' = CachePut(cache, last.key, Append(CacheGet(cache, last.key), 0))
    /\ last' = [op |-> "caller_mutates", key |-> last.key,
                filled |-> last.result]
    /\ UNCHANGED <<indexVars, cache_size, cache_hits, cache_misses, query_count,
                   threadVars, stackVars, subjectVars>>

CallerNext ==
    \/ \E df \in CacheFrames : CachingBuildIndex(df)
    \/ \E la \in CacheLatitudes, t \in CacheTimes \ {None} : CachingFind(la, 0, t, t)
    \/ CallerMutates

SpecCaller == CacheInit /\ [][CallerNext]_vars

(* C30: a cached result is isolated from its callers: the list a hit returns *)
(* has the contents the wrapped index returned on the miss that filled the   *)
(* entry, even if a caller modified the list it received from that query.    *)
C30_CachedListIsolated ==
    [][(/\ last.op = "caller_mutates"
        /\ last'.op = "cache_find" /\ last'.key = last.key)
       => last'.result = last.filled]_vars

====
